---- MODULE Spec2Model ----
(***************************************************************************)
(* Model of the node-edit modal of jsoncrack                               *)
(* (src/features/modals/NodeModal/index.tsx): the normalizer, the          *)
(* path-addressed mutation (setValueAtPath, handleSave) and the modal's    *)
(* edit session (editing / draft / error).                                 *)
(*                                                                         *)
(* JavaScript values are records [k, s, m, len]:                           *)
(*   k   the kind: "null" "bool" "num" "str" "obj" "arr" "undef"           *)
(*   s   the scalar's characters (a number is kept as its decimal text;    *)
(*       the code never computes with it)                                  *)
(*   m   the own properties of an object or array, a set of [key, val];    *)
(*       the order of keys is abstracted away (values are compared, the    *)
(*       layout of the JSON text is not)                                   *)
(*   len the length of an array (an index below len with no entry is a     *)
(*       hole)                                                             *)
(* A text (the draft, the stored json) is a record [form, s, v]:           *)
(*   "raw"    the bare characters s                                        *)
(*   "quoted" the characters s between double quotes                       *)
(*   "doc"    the JSON text of the object or array v                       *)
(***************************************************************************)
EXTENDS Integers, Sequences, FiniteSets, TLC

\* ------------------------------------------------------------------ values

Mk(k, s, m, len) == [k |-> k, s |-> s, m |-> m, len |-> len]
Entry(key, val) == [key |-> key, val |-> val]

Undefined == Mk("undef", "", {}, 0)
JNull == Mk("null", "null", {}, 0)
JBool(s) == Mk("bool", s, {}, 0)
JNum(s) == Mk("num", s, {}, 0)
JStr(s) == Mk("str", s, {}, 0)
JObj(m) == Mk("obj", "", m, 0)
EmptyObj == JObj({})
EmptyArr == Mk("arr", "", {}, 0)

\* typeof v === "object" && v !== null
IsObjectLike(v) == v.k \in {"obj", "arr"}

\* String(i) for an array index i, and the keys that are array indices
IdxKeys == <<"0", "1", "2", "3", "4", "5", "6", "7", "8", "9">>
IdxKey(i) == IdxKeys[i + 1]
IsIdxKey(key) == \E i \in 1..Len(IdxKeys) : IdxKeys[i] = key
KeyIdx(key) == (CHOOSE i \in 1..Len(IdxKeys) : IdxKeys[i] = key) - 1

\* the array literal [q[1], q[2], ...]
JArr(q) == Mk("arr", "", {Entry(IdxKey(i - 1), q[i]) : i \in 1..Len(q)}, Len(q))

\* the characters of the strings that occur in the model
Chars(s) == IF s = "hi" THEN <<"h", "i">> ELSE IF s = "" THEN <<>> ELSE <<s>>

Max(a, b) == IF a >= b THEN a ELSE b

HasOwn(v, key) == \E e \in v.m : e.key = key
OwnVal(v, key) == (CHOOSE e \in v.m : e.key = key).val

\* v[key] for v neither null nor undefined
GetProp(v, key) ==
  IF IsObjectLike(v)
    THEN IF HasOwn(v, key) THEN OwnVal(v, key) ELSE Undefined
    ELSE IF v.k = "str" /\ IsIdxKey(key) /\ KeyIdx(key) < Len(Chars(v.s))
      THEN JStr(Chars(v.s)[KeyIdx(key) + 1])
      ELSE Undefined

\* target[key] = val for an object or array target
SetProp(target, key, val) ==
  Mk(target.k, target.s,
     {e \in target.m : e.key # key} \cup {Entry(key, val)},
     IF target.k = "arr" /\ IsIdxKey(key)
       THEN Max(target.len, KeyIdx(key) + 1)
       ELSE target.len)

\* Object.keys(v) for v neither null nor undefined
ObjectKeys(v) ==
  IF IsObjectLike(v) THEN {e.key : e \in v.m}
  ELSE IF v.k = "str" THEN {IdxKey(i - 1) : i \in 1..Len(Chars(v.s))}
  ELSE {}

\* ------------------------------------------------------------------- texts

Text(form, s, v) == [form |-> form, s |-> s, v |-> v]
Raw(s) == Text("raw", s, Undefined)
Quoted(s) == Text("quoted", s, Undefined)

Ok(val) == [ok |-> TRUE, val |-> val, err |-> ""]
Throw(name) == [ok |-> FALSE, val |-> Undefined, err |-> name]

NumLits == {"1", "2", "3", "5", "7"}

\* what JSON.stringify writes for v: holes and undefined elements of an array
\* become null, properties of an array that are not indices and undefined
\* properties of an object are left out
RECURSIVE Norm(_)
Norm(v) ==
  IF v.k = "obj"
    THEN JObj({Entry(e.key, Norm(e.val)) : e \in {x \in v.m : x.val.k # "undef"}})
  ELSE IF v.k = "arr"
    THEN Mk("arr", "",
            {Entry(IdxKey(i),
                   IF HasOwn(v, IdxKey(i)) /\ OwnVal(v, IdxKey(i)).k # "undef"
                     THEN Norm(OwnVal(v, IdxKey(i)))
                     ELSE JNull) : i \in 0..(v.len - 1)},
            v.len)
  ELSE v

\* JSON.stringify(v, null, 2)
Stringify(v) ==
  IF v.k = "str" THEN Quoted(v.s)
  ELSE IF IsObjectLike(v) THEN Text("doc", "", Norm(v))
  ELSE Raw(v.s)

\* `${v}` for a scalar v: a string is written without quotes
Template(v) == Raw(v.s)

\* JSON.parse(t)
JsonParse(t) ==
  IF t.form = "doc" THEN Ok(t.v)
  ELSE IF t.form = "quoted" THEN Ok(JStr(t.s))
  ELSE IF t.s \in NumLits THEN Ok(JNum(t.s))
  ELSE IF t.s \in {"true", "false"} THEN Ok(JBool(t.s))
  ELSE IF t.s = "null" THEN Ok(JNull)
  ELSE Throw("SyntaxError")

\* ------------------------------------------------------------ paths, nodes

\* a path segment: a number (an array index) or a string (an object key);
\* key is what the segment is as a property key
NumSeg(i) == [num |-> TRUE, key |-> IdxKey(i)]
KeySeg(key) == [num |-> FALSE, key |-> key]

\* a row of a node; key = "" stands for a missing key (null and "" are
\* both falsy)
Row(key, value, type) == [key |-> key, value |-> value, type |-> type]

\* a node of the graph: its id <<i>>, its path and its rows; every node of the
\* graph carries a path.  NoNode is selectedNode when nothing is selected:
\* nodeData?.id is undefined, nodeData?.path ?? [] and nodeData?.text ?? []
\* are empty.
NoNode == [isNode |-> FALSE, id |-> <<>>, path |-> <<>>, text |-> <<>>]
Node(path, text) == [isNode |-> TRUE, id |-> <<>>, path |-> path, text |-> text]

RECURSIVE RowsToObj(_, _)
RowsToObj(rows, obj) ==
  IF rows = <<>> THEN obj
  ELSE LET row == Head(rows) IN
       RowsToObj(Tail(rows),
                 IF row.type # "array" /\ row.type # "object" /\ row.key # ""
                   THEN SetProp(obj, row.key, row.value)
                   ELSE obj)

normalizeNodeData(nodeRows) ==
  IF Len(nodeRows) = 0 THEN Stringify(EmptyObj)
  ELSE IF Len(nodeRows) = 1 /\ nodeRows[1].key = "" THEN Template(nodeRows[1].value)
  ELSE Stringify(RowsToObj(nodeRows, EmptyObj))

\* ---------------------------------------------------------------- mutation

\* the loop and the final assignment of setValueAtPath, for a target that is
\* an object or an array and a path that is not empty
RECURSIVE SetIn(_, _, _)
SetIn(target, path, value) ==
  LET seg == Head(path)
      cur == GetProp(target, seg.key)
      child == IF seg.num
                 THEN (IF cur.k = "arr" THEN cur ELSE EmptyArr)
                 ELSE (IF IsObjectLike(cur) THEN cur ELSE EmptyObj)
  IN IF Len(path) = 1
       THEN SetProp(target, seg.key, value)
       ELSE SetProp(target, seg.key, SetIn(child, Tail(path), value))

\* setValueAtPath without its case for the root
setValueAtPathNoRoot(obj, path, value) ==
  IF Len(path) = 0 THEN Ok(obj)
  ELSE IF ~IsObjectLike(obj) THEN Throw("TypeError")
  ELSE Ok(SetIn(obj, path, value))

\* setValueAtPath(obj, path, value); reading a property of null and writing
\* a property of a primitive (the module is strict code) throw a TypeError
setValueAtPath(obj, path, value) ==
  IF Len(path) = 0 THEN Ok(value)
  ELSE IF ~IsObjectLike(obj) THEN Throw("TypeError")
  ELSE Ok(SetIn(obj, path, value))

\* the navigation of handleSave: target = target?.[seg], stopping at undefined
RECURSIVE NavTo(_, _)
NavTo(target, path) ==
  IF path = <<>> THEN target
  ELSE LET next == IF target.k \in {"null", "undef"}
                     THEN Undefined
                     ELSE GetProp(target, Head(path).key)
       IN IF next.k = "undef" THEN Undefined ELSE NavTo(next, Tail(path))

\* Object.keys(parsed).forEach(key => target[key] = parsed[key])
RECURSIVE MergeKeys(_, _, _)
MergeKeys(target, parsed, keys) ==
  IF keys = {} THEN target
  ELSE LET key == CHOOSE x \in keys : TRUE
       IN MergeKeys(SetProp(target, key, GetProp(parsed, key)), parsed, keys \ {key})

\* the document after the object reached from it along path was changed in
\* place into new
RECURSIVE ReplaceAt(_, _, _)
ReplaceAt(obj, path, new) ==
  IF path = <<>> THEN new
  ELSE SetProp(obj, Head(path).key,
               ReplaceAt(GetProp(obj, Head(path).key), Tail(path), new))

IsSingleValue(nodeData) ==
  nodeData.isNode /\ Len(nodeData.text) = 1 /\ nodeData.text[1].key = ""

\* the merge branch of handleSave, for a target that is an object or an array
MergeAtPath(originalObj, path, target, parsed) ==
  IF parsed.k = "null" THEN Throw("TypeError")
  ELSE LET merged == MergeKeys(target, parsed, ObjectKeys(parsed))
       IN setValueAtPath(ReplaceAt(originalObj, path, merged), path, merged)

\* handleSave after both texts are parsed: the value it hands to
\* JSON.stringify and setJson, or what it throws
Mutate(originalObj, nodeData, parsed) ==
  LET target == NavTo(originalObj, nodeData.path)
  IN IF IsSingleValue(nodeData)
       THEN setValueAtPath(originalObj, nodeData.path, parsed)
     ELSE IF nodeData.isNode
       THEN IF IsObjectLike(target)
              THEN MergeAtPath(originalObj, nodeData.path, target, parsed)
              ELSE setValueAtPath(originalObj, nodeData.path, parsed)
     ELSE Ok(parsed)

\* handleSave going on with an empty object when the draft does not parse
NewDocumentLenient(draft, json, nodeData) ==
  LET p == JsonParse(draft)
  IN Mutate(JsonParse(json).val, nodeData, IF p.ok THEN p.val ELSE EmptyObj)

\* handleSave up to setJson: the draft is parsed first, and a text that does
\* not parse throws before anything else is done.  The stored json is always
\* the output of JSON.stringify, so its own parse never fails.
NewDocument(draft, json, nodeData) ==
  LET p == JsonParse(draft)
  IN IF ~p.ok THEN p ELSE Mutate(JsonParse(json).val, nodeData, p.val)

\* ------------------------------------------------------------------- graph

RECURSIVE SetToSeq(_)
SetToSeq(S) ==
  IF S = {} THEN <<>>
  ELSE LET x == CHOOSE y \in S : TRUE IN <<x>> \o SetToSeq(S \ {x})

RowType(v) ==
  CASE v.k = "str" -> "string"
    [] v.k = "num" -> "number"
    [] v.k = "bool" -> "boolean"
    [] v.k = "obj" -> "object"
    [] v.k = "arr" -> "array"
    [] OTHER -> "null"

\* the rows of the node of value v: one unkeyed row for a scalar, one keyed
\* row per member for a container
RowsOf(v) ==
  IF IsObjectLike(v)
    THEN SetToSeq({Row(e.key, IF IsObjectLike(e.val) THEN JNull ELSE e.val,
                       RowType(e.val)) : e \in v.m})
    ELSE <<Row("", v, RowType(v))>>

ChildSeg(v, key) == IF v.k = "arr" THEN NumSeg(KeyIdx(key)) ELSE KeySeg(key)

\* the nodes of the graph of a document: one per position
RECURSIVE NodesOf(_, _)
NodesOf(v, path) ==
  {Node(path, RowsOf(v))} \cup
  UNION {NodesOf(e.val, Append(path, ChildSeg(v, e.key))) : e \in v.m}

\* the number of a path in the numbering of a set of paths
RankIn(paths, path) ==
  LET q == SetToSeq(paths) IN CHOOSE i \in 1..Len(q) : q[i] = path

\* the graph built from a stored document: its nodes, numbered anew at every
\* build (an id identifies a node within one build only)
BuildNodes(json) ==
  LET built == NodesOf(JsonParse(json).val, <<>>)
      paths == {n.path : n \in built}
  IN {[n EXCEPT !.id = <<RankIn(paths, n.path)>>] : n \in built}

\* nodes.find(n => JSON.stringify(n.path ?? []) === pathStr)
FindByPath(nodeSet, path) ==
  IF \E n \in nodeSet : n.path = path
    THEN CHOOSE n \in nodeSet : n.path = path
    ELSE NoNode

\* the re-selection looking in the nodes held before setJson
ReselectStale(oldNodes, newNodes, nodeData) == FindByPath(oldNodes, nodeData.path)

\* the re-selection of handleSave: the node of the edited path among the
\* nodes the store holds after setJson (newNodes), not those it held before
Reselect(oldNodes, newNodes, nodeData) == FindByPath(newNodes, nodeData.path)

\* ------------------------------------------------------------------- state

\* the documents the editor holds at the start or is given from outside
Docs ==
  { JObj({Entry("a", JObj({Entry("b", JNum("1")), Entry("c", JNum("2"))}))}),
    EmptyObj,
    EmptyArr,
    JArr(<<JObj({Entry("y", JObj({Entry("b", JNum("1"))})), Entry("z", JNum("2"))})>>),
    JNum("5"),
    JObj({Entry("a", JArr(<<JNum("1"), JNum("2")>>)), Entry("s", JStr("hi"))}) }

\* the texts the user types into the textarea
DraftTexts ==
  { Raw("7"), Raw("null"), Raw("{bad"), Quoted("hi"),
    Stringify(JObj({Entry("b", JNum("5"))})) }

\* how many Saves a behaviour of the model holds (documents grow with every
\* Save)
MaxSaves == 1

\* how many times a behaviour of the model has the document replaced from
\* outside the modal
MaxExternal == 1

NoError == ""

VARIABLES
  json,          \* useJson: the stored document, a text
  nodes,         \* useGraph: the nodes of the graph
  selectedNode,  \* useGraph: the selected node, or NoNode
  editing,       \* the modal's editing flag
  draft,         \* the modal's draft text
  error,         \* the modal's error message, NoError for null
  saves,         \* the number of Saves so far
  externals,     \* the number of outside changes of the document so far
  last           \* history: the last handler that ran, and the document, node
                 \* and draft that handleSave was given

vars == <<json, nodes, selectedNode, editing, draft, error, saves, externals, last>>

Did(op) == [op |-> op, json |-> Raw(""), node |-> NoNode, draft |-> Raw("")]

Init ==
  /\ json \in {Stringify(d) : d \in Docs}
  /\ nodes = BuildNodes(json)
  /\ selectedNode = NoNode
  /\ editing = FALSE
  /\ draft = Stringify(EmptyObj)
  /\ error = NoError
  /\ saves = 0
  /\ externals = 0
  /\ last = Did("none")

\* the effect on [nodeData?.id] runs when the selected node changes from old
\* to new and the two ids differ
EffectRuns(old, new) == old.id # new.id

\* useJson.setJson(text): the text is stored and the graph is rebuilt from it
\* before setJson returns
SetJsonNodes(text) == BuildNodes(text)

HandleEdit ==
  /\ ~editing
  /\ draft' = normalizeNodeData(selectedNode.text)
  /\ editing' = TRUE
  /\ error' = NoError
  /\ last' = Did("edit")
  /\ UNCHANGED <<json, nodes, selectedNode, saves, externals>>

ChangeDraft(t) ==
  /\ editing
  /\ draft' = t
  /\ last' = Did("change")
  /\ UNCHANGED <<json, nodes, selectedNode, editing, error, saves, externals>>

HandleSave ==
  /\ editing
  /\ saves < MaxSaves
  /\ saves' = saves + 1
  /\ UNCHANGED externals
  /\ last' = [op |-> "save", json |-> json, node |-> selectedNode, draft |-> draft]
  /\ LET r == NewDocument(draft, json, selectedNode)
         newJson == Stringify(r.val)
         found == Reselect(nodes, SetJsonNodes(newJson), selectedNode)
         selected == IF found.isNode THEN found ELSE selectedNode
     IN IF r.ok
          THEN /\ json' = newJson
               /\ nodes' = SetJsonNodes(newJson)
               /\ selectedNode' = selected
               /\ editing' = FALSE
               /\ error' = NoError
               /\ draft' = IF EffectRuns(selectedNode, selected)
                             THEN normalizeNodeData(selected.text)
                             ELSE draft
          ELSE /\ error' = r.err
               /\ UNCHANGED <<json, nodes, selectedNode, editing, draft>>

HandleCancel ==
  /\ editing
  /\ editing' = FALSE
  /\ draft' = normalizeNodeData(selectedNode.text)
  /\ error' = NoError
  /\ last' = Did("cancel")
  /\ UNCHANGED <<json, nodes, selectedNode, saves, externals>>

\* a click on a node of the graph: useGraph.setSelectedNode(n), and the
\* effect on the node's id.  last records whether the node clicked is another
\* position of the document ("select") or the same one ("reselect").
SetSelectedNode(n) ==
  /\ n # selectedNode
  /\ selectedNode' = n
  /\ IF EffectRuns(selectedNode, n)
       THEN /\ editing' = FALSE
            /\ error' = NoError
            /\ draft' = normalizeNodeData(n.text)
       ELSE UNCHANGED <<editing, error, draft>>
  /\ last' = Did(IF n.path # selectedNode.path \/ ~selectedNode.isNode
                   THEN "select" ELSE "reselect")
  /\ UNCHANGED <<json, nodes, saves, externals>>

\* the text editor stores another document: useJson.setJson(text)
ExternalSetJson(d) ==
  /\ externals < MaxExternal
  /\ externals' = externals + 1
  /\ Stringify(d) # json
  /\ json' = Stringify(d)
  /\ nodes' = SetJsonNodes(Stringify(d))
  /\ last' = Did("none")
  /\ UNCHANGED <<selectedNode, editing, draft, error, saves>>

Next ==
  \/ HandleEdit
  \/ \E t \in DraftTexts : ChangeDraft(t)
  \/ HandleSave
  \/ HandleCancel
  \/ \E n \in nodes : SetSelectedNode(n)
  \/ \E d \in Docs : ExternalSetJson(d)

Spec == Init /\ [][Next]_vars

\* ------------------------------------------------------------------ claims

\* what the last handleSave was given and what it left
SaveDone == last.op = "save"
SaveOk == SaveDone /\ error = NoError
Parsed == JsonParse(last.draft)
OldDoc == JsonParse(last.json).val
NewDoc == JsonParse(json).val
SavedPath == last.node.path

\* the value of a JSON document at a path, a numeric segment indexing arrays
\* only and a key segment objects only; Undefined where there is none
RECURSIVE At(_, _)
At(v, path) ==
  IF path = <<>> THEN v
  ELSE IF (Head(path).num /\ v.k = "arr") \/ (~Head(path).num /\ v.k = "obj")
    THEN At(GetProp(v, Head(path).key), Tail(path))
    ELSE Undefined

\* every proper prefix of the path addresses a container of the kind the
\* next segment indexes
PathValid(doc, path) ==
  \A i \in 1..Len(path) :
    At(doc, SubSeq(path, 1, i - 1)).k = (IF path[i].num THEN "arr" ELSE "obj")

\* at every level along the path, the members of old off the path are members
\* of new with the same value
RECURSIVE SiblingsKept(_, _, _)
SiblingsKept(old, new, path) ==
  \/ path = <<>>
  \/ /\ old.k = new.k
     /\ \A key \in ObjectKeys(old) \ {Head(path).key} :
          GetProp(new, key) = GetProp(old, key)
     /\ SiblingsKept(GetProp(old, Head(path).key), GetProp(new, Head(path).key),
                     Tail(path))

\* C1 as stated: after a successful Save at a path all of whose prefixes
\* address existing containers, every position of the document that is not at
\* or below the path, the siblings at each level along the path included, has
\* the value it had before.
C1_FrameAsStated ==
  (SaveOk /\ PathValid(OldDoc, SavedPath))
    => SiblingsKept(OldDoc, NewDoc, SavedPath)

\* a Save on a container node, with an edited object, at a path that
\* addresses an existing object
C2_Precondition ==
  /\ SaveDone
  /\ last.node.isNode
  /\ ~IsSingleValue(last.node)
  /\ Parsed.ok
  /\ Parsed.val.k = "obj"
  /\ PathValid(OldDoc, SavedPath)
  /\ At(OldDoc, SavedPath).k = "obj"

\* C2 as stated: a Save on a container node whose path addresses an existing
\* object, with an edited object, leaves at that path an object that has
\* every key of the edited object with the edited value and every other key
\* it had before with its previous value.
C2_MergeKeepsKeysAsStated ==
  C2_Precondition
    => /\ error = NoError
       /\ At(NewDoc, SavedPath).k = "obj"
       /\ \A key \in ObjectKeys(Parsed.val) :
            GetProp(At(NewDoc, SavedPath), key) = GetProp(Parsed.val, key)
       /\ \A key \in ObjectKeys(At(OldDoc, SavedPath)) \ ObjectKeys(Parsed.val) :
            GetProp(At(NewDoc, SavedPath), key) = GetProp(At(OldDoc, SavedPath), key)

\* C3: a Save whose draft does not parse reports an error and leaves the
\* stored document, and the graph built from it, as they were.
C3_ParseFailureWritesNothing ==
  (SaveDone /\ ~Parsed.ok)
    => /\ error # NoError
       /\ json = last.json
       /\ nodes = BuildNodes(last.json)

C3_Witness == SaveDone /\ ~Parsed.ok /\ last.node.isNode /\ SavedPath # <<>>

\* C4 as stated: a Save at the empty path with a draft that parses makes the
\* stored document the parsed value, for a leaf and for a container.
C4_RootReplaceAsStated ==
  (SaveDone /\ Parsed.ok /\ SavedPath = <<>>)
    => (error = NoError /\ NewDoc = Parsed.val)

\* C4 amended: a Save at the empty path with a draft that parses makes the
\* stored document the parsed value when the node is a leaf, when no node is
\* selected, or when the previous document is a scalar or null.
C4_RootReplace ==
  (/\ SaveDone /\ Parsed.ok /\ SavedPath = <<>>
   /\ (~last.node.isNode \/ IsSingleValue(last.node) \/ ~IsObjectLike(OldDoc)))
    => (error = NoError /\ NewDoc = Parsed.val)

C4_Witness ==
  /\ SaveOk
  /\ IsSingleValue(last.node)
  /\ SavedPath = <<>>
  /\ NewDoc # OldDoc
  /\ NewDoc = Parsed.val

\* C5 as stated: a Save on a container node whose path holds no object (it is
\* absent, a scalar, null or an array) merges nothing: the value at the path
\* becomes the parsed value.
C5_FallbackAsStated ==
  (/\ SaveDone /\ last.node.isNode /\ ~IsSingleValue(last.node) /\ Parsed.ok
   /\ NavTo(OldDoc, SavedPath).k # "obj")
    => (error = NoError /\ NavTo(NewDoc, SavedPath) = Parsed.val)

\* some intermediate position of the path is absent from the document or
\* holds a value that is not the container the next segment indexes
NeedsContainer(doc, path) ==
  \E i \in 1..(Len(path) - 1) :
    At(doc, SubSeq(path, 1, i)).k # (IF path[i + 1].num THEN "arr" ELSE "obj")

\* C6 as stated: a leaf Save at a path with an absent or wrong-kind
\* intermediate position raises no error, and afterwards the value read from
\* the stored document along the path is the parsed value.
C6_VivifyAsStated ==
  (SaveDone /\ IsSingleValue(last.node) /\ Parsed.ok /\ NeedsContainer(OldDoc, SavedPath))
    => (error = NoError /\ NavTo(NewDoc, SavedPath) = Parsed.val)

\* C7 as stated: Save reports an error exactly when the draft does not parse.
C7_ErrorIffParseFailureAsStated ==
  SaveDone => ((error # NoError) <=> ~Parsed.ok)

\* C8 as stated: the text the Normalizer gives for a single unkeyed scalar row
\* parses to the row's value, so Edit followed by Save on a leaf succeeds and
\* leaves the value at the path equal to it.
C8_LeafRoundTripAsStated ==
  /\ (last.op = "edit" /\ IsSingleValue(selectedNode))
       => /\ JsonParse(draft).ok
          /\ JsonParse(draft).val = selectedNode.text[1].value
  /\ (/\ SaveDone /\ IsSingleValue(last.node) /\ PathValid(OldDoc, SavedPath)
      /\ last.draft = normalizeNodeData(last.node.text))
       => /\ error = NoError
          /\ At(NewDoc, SavedPath) = last.node.text[1].value

C10_EditSessionAsStated ==
  /\ error # NoError => editing
  /\ (SaveDone /\ error # NoError) => (editing /\ draft = last.draft)
  /\ SaveOk => ~editing
  /\ last.op \in {"cancel", "select"} => (~editing /\ error = NoError)

====
